---- MODULE Spec2Model ----
(***************************************************************************)
(* State machine of the kitties pallet (pallets/kitties/src/lib.rs):       *)
(* the double map Kitties, the counter NextKittyId, the deposited events   *)
(* and the two dispatchable calls create and breed.                        *)
(***************************************************************************)
EXTENDS Integers, Sequences, FiniteSets, TLC

\* ------------------------------------------------------------------------
\* Bounds
\* ------------------------------------------------------------------------

\* u32::MAX, narrowed so that the exhaustion of the counter is reachable.
U32Max == 3

\* Number of accounts that sign calls.
NumAccounts == 2

\* ------------------------------------------------------------------------
\* Types
\* ------------------------------------------------------------------------

\* Length of the array in  pub struct Kitty(pub [u8; 16]).
DnaLen == 16

Accounts == 1 .. NumAccounts

\* frame_system::RawOrigin: Signed(account), or an origin that is not signed
\* (Root stands for Root and None, which ensure_signed treats alike).
Origins ==
    [kind : {"Signed"}, who : Accounts] \cup [kind : {"Root"}, who : {0}]

\* The values of the u32 call arguments and of NextKittyId.
U32 == 0 .. U32Max

\* Option::None of Option<Kitty>.
None == <<>>

\* A value that is no u32: the id of a call that allocated none.
NoId == -1

Const16(b) == [i \in 1 .. DnaLen |-> b]

Dna(b0, rest) == [i \in 1 .. DnaLen |-> IF i = 1 THEN b0 ELSE rest]

\* The 16-byte values random_value is taken to return: blake2_128 of
\* (random_seed, sender, extrinsic_index) is a value the pallet does not
\* control, so each call of random_value picks any of these.
Entropy ==
    { Const16(0), Const16(255), Dna(1, 50) }

\* ------------------------------------------------------------------------
\* Pure functions
\* ------------------------------------------------------------------------

\* u8 `&`, `|` and `!`, computed bit by bit from the low bit up.
RECURSIVE BitAndN(_, _, _)
BitAndN(a, b, n) ==
    IF n = 0 THEN 0
    ELSE (a % 2) * (b % 2) + 2 * BitAndN(a \div 2, b \div 2, n - 1)

RECURSIVE BitOrN(_, _, _)
BitOrN(a, b, n) ==
    IF n = 0 THEN 0
    ELSE ((a % 2) + (b % 2) - (a % 2) * (b % 2))
         + 2 * BitOrN(a \div 2, b \div 2, n - 1)

\* The two operations tabulated over all pairs of bytes.
BitAndTable == [a \in 0 .. 255 |-> [b \in 0 .. 255 |-> BitAndN(a, b, 8)]]

BitOrTable == [a \in 0 .. 255 |-> [b \in 0 .. 255 |-> BitOrN(a, b, 8)]]

BitAnd(a, b) == BitAndTable[a][b]

BitOr(a, b) == BitOrTable[a][b]

BitNot(a) == 255 - a

\* A plausible slip: the selector not complemented for the first parent.
combine_dna_no_complement(dna1, dna2, selector) ==
    BitOr(BitAnd(selector, dna1), BitAnd(selector, dna2))

\* A plausible slip: the two parents swapped.
combine_dna_swapped(dna1, dna2, selector) ==
    BitOr(BitAnd(BitNot(selector), dna2), BitAnd(selector, dna1))

combine_dna(dna1, dna2, selector) ==
    BitOr(BitAnd(BitNot(selector), dna1), BitAnd(selector, dna2))

\* Kitty(dna): the tuple struct around the 16 bytes.
Kitty(dna) == dna

\* A plausible slip: the gender read from the last byte.
gender_last_byte(kitty) ==
    IF kitty[DnaLen] % 2 = 0 THEN "Male" ELSE "Female"

gender(kitty) ==
    IF kitty[1] % 2 = 0 THEN "Male" ELSE "Female"

\* u32::checked_add: an Option<u32>.
\* A plausible slip: the bound taken one too low.
checked_add_off_by_one(a, b) ==
    IF a + b >= U32Max THEN [some |-> FALSE, value |-> 0] ELSE [some |-> TRUE, value |-> a + b]

checked_add(a, b) ==
    IF a + b > U32Max THEN [some |-> FALSE, value |-> 0] ELSE [some |-> TRUE, value |-> a + b]

\* ensure_signed(origin)
ensure_signed(origin) ==
    IF origin.kind = "Signed"
    THEN [ok |-> TRUE, who |-> origin.who]
    ELSE [ok |-> FALSE, err |-> "BadOrigin"]

\* ------------------------------------------------------------------------
\* State
\* ------------------------------------------------------------------------

VARIABLES
    Kitties,      \* the double map: <<owner, kitty_id>> -> Kitty, for the keys that hold one
    NextKittyId,  \* the next kitty id
    events,       \* the events deposited so far, in order
    last          \* the last call: its result, the id it was given and the random value it drew

vars == <<Kitties, NextKittyId, events, last>>

\* Self::kitties(owner, kitty_id): the getter of the double map.
\* A plausible slip: the record found under any owner.
kitties_any_owner(owner, kitty_id) ==
    IF \E o \in Accounts : <<o, kitty_id>> \in DOMAIN Kitties
    THEN Kitties[<<CHOOSE o \in Accounts : <<o, kitty_id>> \in DOMAIN Kitties, kitty_id>>]
    ELSE None

kitties(owner, kitty_id) ==
    IF <<owner, kitty_id>> \in DOMAIN Kitties THEN Kitties[<<owner, kitty_id>>] ELSE None

\* Kitties::insert(owner, kitty_id, kitty): insert or overwrite.
\* A plausible slip: the kitty is not stored.
insert_skipped(owner, kitty_id, kitty) == Kitties

insert(owner, kitty_id, kitty) ==
    [k \in DOMAIN Kitties \cup {<<owner, kitty_id>>} |->
        IF k = <<owner, kitty_id>> THEN kitty ELSE Kitties[k]]

\* Self::deposit_event(event)
\* A plausible slip: the event is not deposited.
deposit_event_dropped(event) == events

deposit_event(event) == Append(events, event)

KittyCreated(owner, kitty_id, kitty) ==
    [kind |-> "KittyCreated", owner |-> owner, kitty_id |-> kitty_id, kitty |-> kitty]

KittyBred(owner, kitty_id, kitty) ==
    [kind |-> "KittyBred", owner |-> owner, kitty_id |-> kitty_id, kitty |-> kitty]

\* get_next_kitty_id, applied to the stored counter: the result, the id it
\* returns and the value NextKittyId holds afterwards (try_mutate writes the
\* value back only when the closure returns Ok).
\* Plausible slips: the counter is not advanced; the counter wraps; the
\* counter is written although the closure fails; the new value is returned.
get_next_kitty_id_stuck(next_id) ==
    [ok |-> TRUE, err |-> "", id |-> next_id, next |-> next_id]

get_next_kitty_id_wrapping(next_id) ==
    [ok |-> TRUE, err |-> "", id |-> next_id, next |-> (next_id + 1) % (U32Max + 1)]

get_next_kitty_id_written_on_error(next_id) ==
    IF ~checked_add(next_id, 1).some
    THEN [ok |-> FALSE, err |-> "KittiesIdOverflow", id |-> NoId, next |-> 0]
    ELSE [ok |-> TRUE, err |-> "", id |-> next_id, next |-> checked_add(next_id, 1).value]

get_next_kitty_id_new_value(next_id) ==
    IF ~checked_add(next_id, 1).some
    THEN [ok |-> FALSE, err |-> "KittiesIdOverflow", id |-> NoId, next |-> next_id]
    ELSE [ok |-> TRUE, err |-> "", id |-> checked_add(next_id, 1).value,
          next |-> checked_add(next_id, 1).value]

get_next_kitty_id(next_id) ==
    IF ~checked_add(next_id, 1).some
    THEN [ok |-> FALSE, err |-> "KittiesIdOverflow", id |-> NoId, next |-> next_id]
    ELSE [ok |-> TRUE, err |-> "", id |-> next_id, next |-> checked_add(next_id, 1).value]

\* random_value(sender): the values one call may return.
random_value(sender) == Entropy

\* What a call gives back: its DispatchResult, the id it was given by
\* get_next_kitty_id and the value it drew from random_value, if any.
Call(op, result, kitty_id, rand) ==
    [op |-> op, result |-> result, kitty_id |-> kitty_id, rand |-> rand]

Init ==
    /\ Kitties = <<>>
    /\ NextKittyId = 0
    /\ events = <<>>
    /\ last = Call("none", "", NoId, None)

\* ------------------------------------------------------------------------
\* Calls
\* ------------------------------------------------------------------------

create(origin) ==
    LET signed == ensure_signed(origin) IN
    IF ~signed.ok
    THEN /\ last' = Call("create", signed.err, NoId, None)
         /\ UNCHANGED <<Kitties, NextKittyId, events>>
    ELSE LET sender == signed.who
             alloc == get_next_kitty_id(NextKittyId)
         IN  IF ~alloc.ok
             THEN /\ NextKittyId' = alloc.next
                  /\ last' = Call("create", alloc.err, NoId, None)
                  /\ UNCHANGED <<Kitties, events>>
             ELSE \E dna \in random_value(sender) :
                    LET kitty_id == alloc.id
                        kitty == Kitty(dna)
                    IN  /\ NextKittyId' = alloc.next
                        /\ Kitties' = insert(sender, kitty_id, kitty)
                        /\ events' = deposit_event(KittyCreated(sender, kitty_id, kitty))
                        /\ last' = Call("create", "Ok", kitty_id, dna)

\* Plausible slips in breed: the genders are not compared; the id is taken
\* before the checks.
breed_no_gender_check(origin, kitty_id_1, kitty_id_2) ==
    LET signed == ensure_signed(origin) IN
    IF ~signed.ok
    THEN /\ last' = Call("breed", signed.err, NoId, None)
         /\ UNCHANGED <<Kitties, NextKittyId, events>>
    ELSE LET sender == signed.who
             kitty1 == kitties(sender, kitty_id_1)
             kitty2 == kitties(sender, kitty_id_2)
         IN  IF kitty1 = None \/ kitty2 = None
             THEN /\ last' = Call("breed", "InvalidKittyId", NoId, None)
                  /\ UNCHANGED <<Kitties, NextKittyId, events>>
             ELSE LET alloc == get_next_kitty_id(NextKittyId) IN
                  IF ~alloc.ok
                  THEN /\ NextKittyId' = alloc.next
                       /\ last' = Call("breed", alloc.err, NoId, None)
                       /\ UNCHANGED <<Kitties, events>>
                  ELSE \E selector \in random_value(sender) :
                         LET kitty_id == alloc.id
                             new_dna == [i \in 1 .. DnaLen |->
                                 combine_dna(kitty1[i], kitty2[i], selector[i])]
                             new_kitty == Kitty(new_dna)
                         IN  /\ NextKittyId' = alloc.next
                             /\ Kitties' = insert(sender, kitty_id, new_kitty)
                             /\ events' = deposit_event(KittyBred(sender, kitty_id, new_kitty))
                             /\ last' = Call("breed", "Ok", kitty_id, selector)

breed_allocates_first(origin, kitty_id_1, kitty_id_2) ==
    LET signed == ensure_signed(origin) IN
    IF ~signed.ok
    THEN /\ last' = Call("breed", signed.err, NoId, None)
         /\ UNCHANGED <<Kitties, NextKittyId, events>>
    ELSE LET sender == signed.who
             alloc == get_next_kitty_id(NextKittyId)
             kitty1 == kitties(sender, kitty_id_1)
             kitty2 == kitties(sender, kitty_id_2)
         IN  IF ~alloc.ok
             THEN /\ NextKittyId' = alloc.next
                  /\ last' = Call("breed", alloc.err, NoId, None)
                  /\ UNCHANGED <<Kitties, events>>
             ELSE IF kitty1 = None \/ kitty2 = None
             THEN /\ NextKittyId' = alloc.next
                  /\ last' = Call("breed", "InvalidKittyId", NoId, None)
                  /\ UNCHANGED <<Kitties, events>>
             ELSE IF ~(gender(kitty1) # gender(kitty2))
             THEN /\ NextKittyId' = alloc.next
                  /\ last' = Call("breed", "SameGender", NoId, None)
                  /\ UNCHANGED <<Kitties, events>>
             ELSE \E selector \in random_value(sender) :
                    LET kitty_id == alloc.id
                        new_dna == [i \in 1 .. DnaLen |->
                            combine_dna(kitty1[i], kitty2[i], selector[i])]
                        new_kitty == Kitty(new_dna)
                    IN  /\ NextKittyId' = alloc.next
                        /\ Kitties' = insert(sender, kitty_id, new_kitty)
                        /\ events' = deposit_event(KittyBred(sender, kitty_id, new_kitty))
                        /\ last' = Call("breed", "Ok", kitty_id, selector)

breed(origin, kitty_id_1, kitty_id_2) ==
    LET signed == ensure_signed(origin) IN
    IF ~signed.ok
    THEN /\ last' = Call("breed", signed.err, NoId, None)
         /\ UNCHANGED <<Kitties, NextKittyId, events>>
    ELSE LET sender == signed.who
             kitty1 == kitties(sender, kitty_id_1)
             kitty2 == kitties(sender, kitty_id_2)
         IN  IF kitty1 = None \/ kitty2 = None
             THEN /\ last' = Call("breed", "InvalidKittyId", NoId, None)
                  /\ UNCHANGED <<Kitties, NextKittyId, events>>
             ELSE IF ~(gender(kitty1) # gender(kitty2))
             THEN /\ last' = Call("breed", "SameGender", NoId, None)
                  /\ UNCHANGED <<Kitties, NextKittyId, events>>
             ELSE LET alloc == get_next_kitty_id(NextKittyId) IN
                  IF ~alloc.ok
                  THEN /\ NextKittyId' = alloc.next
                       /\ last' = Call("breed", alloc.err, NoId, None)
                       /\ UNCHANGED <<Kitties, events>>
                  ELSE \E selector \in random_value(sender) :
                         LET kitty_id == alloc.id
                             kitty1_dna == kitty1
                             kitty2_dna == kitty2
                             new_dna == [i \in 1 .. DnaLen |->
                                 combine_dna(kitty1_dna[i], kitty2_dna[i], selector[i])]
                             new_kitty == Kitty(new_dna)
                         IN  /\ NextKittyId' = alloc.next
                             /\ Kitties' = insert(sender, kitty_id, new_kitty)
                             /\ events' = deposit_event(KittyBred(sender, kitty_id, new_kitty))
                             /\ last' = Call("breed", "Ok", kitty_id, selector)

Next ==
    \/ \E origin \in Origins : create(origin)
    \/ \E origin \in Origins, kitty_id_1 \in U32, kitty_id_2 \in U32 :
          breed(origin, kitty_id_1, kitty_id_2)

Spec == Init /\ [][Next]_vars

\* ------------------------------------------------------------------------
\* Well-formedness of the state
\* ------------------------------------------------------------------------

TypeOK ==
    /\ NextKittyId \in U32
    /\ DOMAIN Kitties \subseteq Accounts \X U32
    /\ \A k \in DOMAIN Kitties : Kitties[k] \in [1 .. DnaLen -> 0 .. 255]
    /\ last.result \in {"", "Ok", "BadOrigin", "KittiesIdOverflow", "InvalidKittyId", "SameGender"}

\* ------------------------------------------------------------------------
\* Properties
\* ------------------------------------------------------------------------

\* The origin of a call signed by the account.
SignedBy(who) == [kind |-> "Signed", who |-> who]

\* The account owns a kitty under the id.
Owns(who, kitty_id) == <<who, kitty_id>> \in DOMAIN Kitties

\* The lowest bit of byte 0 of the kitty stored under (who, kitty_id).
Parity(who, kitty_id) == Kitties[<<who, kitty_id>>][1] % 2

\* Bit k of a byte.
Bit(x, k) == (x \div (2 ^ k)) % 2

\* The ids the successful calls were given, in call order.
EventIds(evs) == [i \in 1 .. Len(evs) |-> evs[i].kitty_id]

StrictlyIncreasing(seq) ==
    \A i, j \in 1 .. Len(seq) : i < j => seq[i] < seq[j]

Errors == {"KittiesIdOverflow", "InvalidKittyId", "SameGender"}

\* The call leaves the counter, the map and the events as they were.
NothingChanged == UNCHANGED <<NextKittyId, Kitties, events>>

\* C1: over any sequence of create and breed calls the ids given to the
\* successful calls are strictly increasing in call order, no id is given
\* twice, and NextKittyId never decreases.
C1_IdsStrictlyIncreasing ==
    /\ [](/\ StrictlyIncreasing(EventIds(events))
          /\ \A i \in 1 .. Len(events) : events[i].kitty_id < NextKittyId)
    /\ [][ /\ NextKittyId' >= NextKittyId
           /\ (last'.result = "Ok" =>
                 /\ last'.kitty_id >= NextKittyId
                 /\ last'.kitty_id < NextKittyId'
                 /\ events'[Len(events')].kitty_id = last'.kitty_id) ]_vars

C1_Witness ==
    /\ Len(events) = 3
    /\ last.result = "Ok"
    /\ EventIds(events) = <<0, 1, 2>>
    /\ \E i, j \in 1 .. 3 : /\ events[i].kind = "KittyCreated"
                            /\ events[j].kind = "KittyBred"

\* C2: a create or breed call that returns KittiesIdOverflow, InvalidKittyId
\* or SameGender leaves NextKittyId and Kitties as they were and deposits no
\* event.
C2_FailedCallChangesNothing ==
    [][ last'.result \in Errors => NothingChanged ]_vars

C2_Witness ==
    /\ last.op = "breed"
    /\ last.result = "KittiesIdOverflow"
    /\ Len(events) = NextKittyId
    /\ Cardinality(DOMAIN Kitties) = NextKittyId

\* C3 as stated: once NextKittyId is the maximum, every create and every
\* breed call by a signed origin, whatever its arguments, fails with
\* KittiesIdOverflow and changes nothing.
C3_EveryCallOverflows ==
    [][ NextKittyId = U32Max /\ last'.result # "BadOrigin" =>
          /\ last'.result = "KittiesIdOverflow"
          /\ NothingChanged ]_vars

\* The error of breed(who, id1, id2) at an exhausted counter.
ExhaustedBreedError(who, id1, id2) ==
    IF ~(Owns(who, id1) /\ Owns(who, id2)) THEN "InvalidKittyId"
    ELSE IF Parity(who, id1) = Parity(who, id2) THEN "SameGender"
    ELSE "KittiesIdOverflow"

\* C3 amended: once NextKittyId is the maximum, every create call by a
\* signed origin fails with KittiesIdOverflow; a breed call by a signed
\* origin fails with KittiesIdOverflow when the caller owns both kitties and
\* their genders differ, with InvalidKittyId when the caller does not own
\* both, and with SameGender otherwise; every such call changes nothing.
C3_ExhaustedCallsFail ==
    [](NextKittyId = U32Max =>
           \A who \in Accounts :
               /\ ENABLED create(SignedBy(who))
               /\ ~ENABLED (/\ create(SignedBy(who))
                            /\ ~(last'.result = "KittiesIdOverflow" /\ NothingChanged))
               /\ \A id1, id2 \in U32 :
                     /\ ENABLED breed(SignedBy(who), id1, id2)
                     /\ ~ENABLED (/\ breed(SignedBy(who), id1, id2)
                                  /\ ~(/\ last'.result = ExhaustedBreedError(who, id1, id2)
                                       /\ NothingChanged)))

C3_Witness ==
    /\ NextKittyId = U32Max
    /\ last.op = "breed"
    /\ last.result = "InvalidKittyId"
    /\ \E who \in Accounts : \E id1, id2 \in U32 :
          ExhaustedBreedError(who, id1, id2) = "KittiesIdOverflow"

\* C4: while NextKittyId is below the maximum a create call by a signed
\* origin succeeds; create never fails with InvalidKittyId or SameGender and
\* fails with KittiesIdOverflow only when NextKittyId is the maximum.
C4_CreateSucceedsUnlessExhausted ==
    \A who \in Accounts :
        /\ ENABLED create(SignedBy(who))
        /\ ~ENABLED (/\ create(SignedBy(who))
                     /\ last'.result \notin {"Ok", "KittiesIdOverflow"})
        /\ NextKittyId < U32Max =>
              ~ENABLED (create(SignedBy(who)) /\ last'.result # "Ok")

C4_Witness ==
    /\ last.op = "create"
    /\ last.result = "Ok"
    /\ last.kitty_id = U32Max - 1
    /\ NextKittyId = U32Max

\* breed(who, id1, id2) passes its checks and reaches get_next_kitty_id: the
\* caller owns both kitties, of different gender.
BreedAllowed(who, id1, id2) ==
    /\ Owns(who, id1)
    /\ Owns(who, id2)
    /\ Parity(who, id1) # Parity(who, id2)

\* What C5 says of one call of get_next_kitty_id.
AllocatorStep ==
    IF NextKittyId + 1 <= U32Max
    THEN /\ last'.result = "Ok"
         /\ last'.kitty_id = NextKittyId
         /\ NextKittyId' = NextKittyId + 1
    ELSE /\ last'.result = "KittiesIdOverflow"
         /\ last'.kitty_id = NoId
         /\ NextKittyId' = NextKittyId
         /\ NextKittyId' = U32Max

\* C5: get_next_kitty_id, called with counter value c: when c + 1 fits a u32
\* it returns c and sets the counter to c + 1; when c is the maximum it fails
\* with KittiesIdOverflow and the counter stays c (it does not wrap to 0).
\* The calls that reach it are a create by a signed origin and a breed that
\* passes its checks.
C5_AllocatorStep ==
    \A who \in Accounts :
        /\ ~ENABLED (create(SignedBy(who)) /\ ~AllocatorStep)
        /\ \A id1, id2 \in U32 :
              BreedAllowed(who, id1, id2) =>
                  ~ENABLED (breed(SignedBy(who), id1, id2) /\ ~AllocatorStep)

C5_Witness ==
    /\ last.op = "breed"
    /\ last.result = "Ok"
    /\ last.kitty_id = U32Max - 1
    /\ NextKittyId = U32Max

\* C6: a breed call by a signed caller who has no kitty under the first or
\* under the second id, also when the id holds a kitty of another owner,
\* fails with InvalidKittyId and leaves NextKittyId as it was.
C6_BreedNotFound ==
    [](\A who \in Accounts : \A id1, id2 \in U32 :
           ~Owns(who, id1) \/ ~Owns(who, id2) =>
               /\ ENABLED breed(SignedBy(who), id1, id2)
               /\ ~ENABLED (/\ breed(SignedBy(who), id1, id2)
                            /\ ~(/\ last'.result = "InvalidKittyId"
                                 /\ NextKittyId' = NextKittyId)))

C6_Witness ==
    /\ last.op = "breed"
    /\ last.result = "InvalidKittyId"
    /\ NextKittyId < U32Max
    /\ \E who \in Accounts : \E other \in Accounts \ {who} : \E id1, id2 \in U32 :
          /\ Owns(who, id1)
          /\ ~Owns(who, id2)
          /\ Owns(other, id2)
          /\ Parity(who, id1) # Parity(other, id2)

\* C7: a breed call by a signed caller who owns both kitties, of equal
\* gender (equal lowest bit of byte 0), fails with SameGender whatever the
\* rest of the genomes is, and leaves Kitties and NextKittyId as they were.
C7_BreedSameGender ==
    \A who \in Accounts : \A id1, id2 \in U32 :
        /\ Owns(who, id1)
        /\ Owns(who, id2)
        /\ Parity(who, id1) = Parity(who, id2)
        => /\ ENABLED breed(SignedBy(who), id1, id2)
           /\ ~ENABLED (/\ breed(SignedBy(who), id1, id2)
                        /\ ~(/\ last'.result = "SameGender"
                             /\ UNCHANGED <<Kitties, NextKittyId>>))

C7_Witness ==
    /\ last.op = "breed"
    /\ last.result = "SameGender"
    /\ NextKittyId < U32Max
    /\ \E who \in Accounts : \E id1, id2 \in U32 :
          /\ Owns(who, id1)
          /\ Owns(who, id2)
          /\ Parity(who, id1) = Parity(who, id2)
          /\ Kitties[<<who, id1>>] # Kitties[<<who, id2>>]

\* The state after two creates by one caller in the fresh state, the first
\* giving a genome with byte 0 = 0x00 and the second one with byte 0 = 0x01.
TwoCreates(who) ==
    /\ Len(events) = 2
    /\ NextKittyId = 2
    /\ \A i \in 1 .. 2 : /\ events[i].kind = "KittyCreated"
                         /\ events[i].owner = who
                         /\ events[i].kitty_id = i - 1
                         /\ Owns(who, i - 1)
                         /\ Kitties[<<who, i - 1>>] = events[i].kitty
    /\ events[1].kitty[1] = 0
    /\ events[2].kitty[1] = 1

\* What C8 says of a successful breed(who, id1, id2).
BreedStep(who) ==
    /\ last'.result = "Ok"
    /\ last'.kitty_id = NextKittyId
    /\ NextKittyId' = NextKittyId + 1
    /\ <<who, NextKittyId>> \in DOMAIN Kitties'
    /\ events' = Append(events,
           [kind |-> "KittyBred", owner |-> who, kitty_id |-> NextKittyId,
            kitty |-> Kitties'[<<who, NextKittyId>>]])

\* C8: when the signed caller owns both kitties, of different gender, and
\* NextKittyId is below the maximum, breed succeeds, takes as new id the
\* value of NextKittyId before the call, stores the child under (caller, new
\* id), raises NextKittyId by one and deposits KittyBred(caller, new id,
\* child); after two creates by one caller with byte 0 = 0x00 and 0x01 in
\* the fresh state, breed(caller, 0, 1) with an all-zero selector takes id 2
\* and stores a child equal to the genome of kitty 0.
C8_BreedSucceeds ==
    \A who \in Accounts :
        /\ \A id1, id2 \in U32 :
              BreedAllowed(who, id1, id2) /\ NextKittyId < U32Max =>
                  /\ ENABLED breed(SignedBy(who), id1, id2)
                  /\ ~ENABLED (breed(SignedBy(who), id1, id2) /\ ~BreedStep(who))
        /\ TwoCreates(who) =>
              /\ ENABLED (/\ breed(SignedBy(who), 0, 1)
                          /\ last'.rand = [i \in 1 .. 16 |-> 0])
              /\ ~ENABLED (/\ breed(SignedBy(who), 0, 1)
                           /\ last'.rand = [i \in 1 .. 16 |-> 0]
                           /\ ~(/\ last'.kitty_id = 2
                                /\ Kitties'[<<who, 2>>] = Kitties[<<who, 0>>]
                                /\ Kitties'[<<who, 2>>] # Kitties[<<who, 1>>]))

C8_Witness ==
    /\ last.op = "breed"
    /\ last.result = "Ok"
    /\ last.kitty_id = 2
    /\ last.rand = [i \in 1 .. 16 |-> 0]
    /\ Len(events) = 3
    /\ events[1].kind = "KittyCreated" /\ events[1].kitty[1] = 0
    /\ events[2].kind = "KittyCreated" /\ events[2].kitty[1] = 1
    /\ events[3] = [kind |-> "KittyBred", owner |-> events[1].owner, kitty_id |-> 2,
                    kitty |-> events[1].kitty]
    /\ Kitties[<<events[1].owner, 2>>] = events[1].kitty

\* What C9 says of the child of a successful breed(who, id1, id2).
ChildIsMultiplexer(who, id1, id2) ==
    LET parentA == Kitties[<<who, id1>>]
        parentB == Kitties[<<who, id2>>]
        selector == last'.rand
        child == Kitties'[<<who, last'.kitty_id>>]
    IN  /\ DOMAIN child = 1 .. 16
        /\ \A i \in 1 .. 16 : \A k \in 0 .. 7 :
              Bit(child[i], k) =
                  IF Bit(selector[i], k) = 0 THEN Bit(parentA[i], k)
                  ELSE Bit(parentB[i], k)
        /\ ((\A i \in 1 .. 16 : selector[i] = 0) => child = parentA)
        /\ ((\A i \in 1 .. 16 : selector[i] = 255) => child = parentB)

\* C9: the child of a successful breed is the bitwise multiplexer of the
\* parents under the selector: every bit of the child is the bit of the
\* kitty under the first id where the selector bit is 0 and the bit of the
\* kitty under the second id where it is 1; an all-zero selector gives the
\* first parent's genome and an all-one selector the second parent's.
C9_ChildIsMultiplexer ==
    [](\A who \in Accounts : \A id1, id2 \in U32 :
           ~ENABLED (/\ breed(SignedBy(who), id1, id2)
                     /\ last'.result = "Ok"
                     /\ ~ChildIsMultiplexer(who, id1, id2)))

C9_Witness ==
    /\ last.op = "breed"
    /\ last.result = "Ok"
    /\ \E i \in 1 .. 16 : last.rand[i] \notin {0, 255}
    /\ LET who == events[Len(events)].owner
           child == Kitties[<<who, last.kitty_id>>]
       IN  \A id \in U32 : Owns(who, id) /\ id # last.kitty_id =>
                              child # Kitties[<<who, id>>]

\* What C10 says of a successful create(who).
CreateStep(who) ==
    /\ last'.kitty_id = NextKittyId
    /\ NextKittyId' = NextKittyId + 1
    /\ DOMAIN last'.rand = 1 .. 16
    /\ <<who, NextKittyId>> \in DOMAIN Kitties'
    /\ Kitties'[<<who, NextKittyId>>] = last'.rand
    /\ events' = Append(events,
           [kind |-> "KittyCreated", owner |-> who, kitty_id |-> NextKittyId,
            kitty |-> last'.rand])

\* C10: a successful create(caller) takes as id the value of NextKittyId
\* before the call, stores under (caller, id) a kitty whose genome is the 16
\* bytes random_value returned to the call, raises NextKittyId by one and
\* deposits KittyCreated(caller, id, kitty) with that id and kitty.
C10_CreateStores ==
    \A who \in Accounts :
        ~ENABLED (/\ create(SignedBy(who))
                  /\ last'.result = "Ok"
                  /\ ~CreateStep(who))

C10_Witness ==
    /\ last.op = "create"
    /\ last.result = "Ok"
    /\ last.kitty_id > 0
    /\ Kitties[<<events[Len(events)].owner, last.kitty_id>>] = last.rand
    /\ \E i \in 1 .. 16 : last.rand[i] \notin {0, 255}

\* C11: no breed call with equal ids succeeds: breed(caller, id, id) fails
\* with SameGender when the caller owns id and with InvalidKittyId when not,
\* and changes nothing.
C11_BreedSelfFails ==
    [](\A who \in Accounts : \A id \in U32 :
           /\ ENABLED breed(SignedBy(who), id, id)
           /\ ~ENABLED (/\ breed(SignedBy(who), id, id)
                        /\ ~(/\ last'.result =
                                  IF Owns(who, id) THEN "SameGender" ELSE "InvalidKittyId"
                             /\ NothingChanged)))

\* The caller of the failed breed owns one kitty only, so the two ids of
\* the call were the same id.

C11_Witness ==
    /\ last.op = "breed"
    /\ last.result = "SameGender"
    /\ NextKittyId < U32Max
    /\ \A who \in Accounts : Cardinality({id \in U32 : Owns(who, id)}) <= 1

\* C12: in every reachable state each id holds a kitty under at most one
\* owner, for every interleaving of create and breed calls by different
\* callers.
C12_OneOwnerPerId ==
    \A id \in U32 : \A o1, o2 \in Accounts :
        Owns(o1, id) /\ Owns(o2, id) => o1 = o2

C12_Witness ==
    /\ NextKittyId = U32Max
    /\ \E o1, o2 \in Accounts : \E id1, id2 \in U32 :
          /\ o1 # o2
          /\ Owns(o1, id1)
          /\ Owns(o2, id2)
          /\ id1 < id2
          /\ \E id3 \in U32 : id2 < id3 /\ Owns(o1, id3)

\* C13: a stored kitty is immutable: once (owner, id) holds a kitty, every
\* later create or breed call, successful or failed, by any caller leaves
\* the entry present with the same genome; breed leaves its parents as they
\* were and insert overwrites no existing entry.
C13_StoredKittyImmutable ==
    [][ /\ Kitties' # Kitties =>
              \A k \in DOMAIN Kitties :
                  /\ k \in DOMAIN Kitties'
                  /\ Kitties'[k] = Kitties[k]
        /\ (last'.result = "Ok" =>
              \A who \in Accounts : ~Owns(who, last'.kitty_id)) ]_vars

C13_Witness ==
    /\ last.op = "breed"
    /\ last.result = "Ok"
    /\ Len(events) = 3
    /\ events[3].kitty # events[1].kitty
    /\ events[3].kitty # events[2].kitty
    /\ \A i \in 1 .. 2 :
          /\ events[i].owner = events[3].owner
          /\ Kitties[<<events[i].owner, events[i].kitty_id>>] = events[i].kitty

\* C14: when several callers issue create calls and each call is applied as
\* one atomic step, in any serial order, no two of the calls are given the
\* same id: the KittyCreated events of a run carry pairwise different ids,
\* also when their owners differ.
C14_ConcurrentCreatesDistinctIds ==
    \A i, j \in 1 .. Len(events) :
        /\ i # j
        /\ events[i].kind = "KittyCreated"
        /\ events[j].kind = "KittyCreated"
        => events[i].kitty_id # events[j].kitty_id

C14_Witness ==
    /\ last.op = "create"
    /\ last.result = "Ok"
    /\ Len(events) = U32Max
    /\ \A i \in 1 .. Len(events) : events[i].kind = "KittyCreated"
    /\ \A i \in 1 .. Len(events) - 1 : events[i].owner # events[i + 1].owner

\* Genomes with every value of byte 0 and several values of the other bytes.
GenderSamples == { Dna(b0, rest) : b0 \in 0 .. 255, rest \in {0, 1, 50, 254, 255} }

\* What C15 says of the gender of one genome.
GenderIsParity(kitty) ==
    /\ gender(kitty) \in {"Male", "Female"}
    /\ gender(kitty) = "Male" <=> Bit(kitty[1], 0) = 0
    /\ gender(kitty) = "Female" <=> Bit(kitty[1], 0) = 1

GenderOnSamples ==
    /\ \A kitty \in GenderSamples : GenderIsParity(kitty)
    /\ \A b0 \in 0 .. 255 : \A r1, r2 \in {0, 1, 50, 254, 255} :
          /\ gender(Dna(b0, r1)) = gender(Dna(b0, r2))
          /\ gender(Dna(b0, r1)) = gender(Dna(b0 % 2, r2))

\* C15: gender is a total function of the parity of byte 0 of the genome
\* only: a kitty is Male exactly when byte 0 is even and Female exactly when
\* it is odd, and two kitties that agree on the lowest bit of byte 0 have the
\* same gender whatever their other 127 bits are; checked on the sample
\* genomes and on every kitty in the map.
C15_GenderIsParityOfByte0 ==
    /\ GenderOnSamples
    /\ \A k \in DOMAIN Kitties : GenderIsParity(Kitties[k])

C15_Witness ==
    \E k1, k2, k3 \in DOMAIN Kitties :
        /\ gender(Kitties[k1]) = "Female"
        /\ gender(Kitties[k2]) = "Female"
        /\ gender(Kitties[k3]) = "Male"
        /\ Kitties[k1][1] # Kitties[k2][1]
        /\ Kitties[k1][DnaLen] % 2 # Kitties[k2][DnaLen] % 2

\* The ids that hold a kitty under some owner.
StoredIds == { k[2] : k \in DOMAIN Kitties }

\* C16: in every state reached from the empty map with counter 0 the ids
\* that hold a kitty, under any owner, are exactly 0 .. NextKittyId - 1, and
\* the number of stored kitties equals the counter.
C16_StoredIdsAreIssuedIds ==
    /\ StoredIds = 0 .. (NextKittyId - 1)
    /\ Cardinality(DOMAIN Kitties) = NextKittyId

C16_Witness ==
    /\ NextKittyId = U32Max
    /\ last.result = "Ok"
    /\ StoredIds = 0 .. (U32Max - 1)
    /\ Cardinality({ k[1] : k \in DOMAIN Kitties }) = NumAccounts

\* The result of breed(who, id1, id2), by the order of its checks.
BreedResult(who, id1, id2) ==
    IF ~Owns(who, id1) THEN "InvalidKittyId"
    ELSE IF ~Owns(who, id2) THEN "InvalidKittyId"
    ELSE IF Parity(who, id1) = Parity(who, id2) THEN "SameGender"
    ELSE IF NextKittyId = U32Max THEN "KittiesIdOverflow"
    ELSE "Ok"

\* C17: breed checks a missing first kitty, then a missing second kitty
\* (both InvalidKittyId), then equal gender (SameGender) and only then takes
\* an id (KittiesIdOverflow), and reports the first check that fails: at an
\* exhausted counter a breed with an id the caller does not own returns
\* InvalidKittyId and a breed of two kitties of equal gender SameGender.
C17_BreedCheckOrder ==
    [](\A who \in Accounts : \A id1, id2 \in U32 :
           ~ENABLED (/\ breed(SignedBy(who), id1, id2)
                     /\ last'.result # BreedResult(who, id1, id2)))

C17_Witness ==
    /\ NextKittyId = U32Max
    /\ last.op = "breed"
    /\ last.result = "SameGender"
    /\ \E who \in Accounts : \E id1, id2 \in U32 :
          id1 # id2 /\ BreedResult(who, id1, id2) = "SameGender"
    /\ \E who \in Accounts : \E id1, id2 \in U32 :
          Owns(who, id1) /\ BreedResult(who, id1, id2) = "InvalidKittyId"

\* C18: the events mirror the map: the number of events deposited equals
\* NextKittyId, the k-th event (from 0) carries id k, the (owner, id, kitty)
\* of every KittyCreated or KittyBred event is an entry of the map, and a
\* failed call deposits no event.
C18_EventsMirrorStore ==
    /\ [](/\ Len(events) = NextKittyId
          /\ \A k \in 1 .. Len(events) :
                /\ events[k].kind \in {"KittyCreated", "KittyBred"}
                /\ events[k].kitty_id = k - 1
                /\ Owns(events[k].owner, events[k].kitty_id)
                /\ Kitties[<<events[k].owner, events[k].kitty_id>>] = events[k].kitty)
    /\ [][ last'.result # "Ok" => events' = events ]_vars

C18_Witness ==
    /\ Len(events) = U32Max
    /\ last.result \in Errors \ {"KittiesIdOverflow"}
    /\ events[1].kind = "KittyCreated"
    /\ events[U32Max].kind = "KittyBred"
    /\ Cardinality(DOMAIN Kitties) = U32Max

\* Bytes of every bit pattern class: all zero, all one, alternating, single
\* bits and the bytes the entropy source yields.
ByteSamples == {0, 1, 2, 50, 85, 127, 128, 170, 205, 254, 255}

\* The two laws of combine_dna: on the sampled parents with every selector,
\* and on every pair of parents with the sampled selectors.
CombineLaws(a, b, s) ==
    /\ combine_dna(a, b, s) = combine_dna(b, a, BitNot(s))
    /\ combine_dna(a, a, s) = a

CombineLawsOnSamples ==
    /\ \A a, b \in ByteSamples : \A s \in 0 .. 255 : CombineLaws(a, b, s)
    /\ \A a, b \in 0 .. 255 : \A s \in ByteSamples : CombineLaws(a, b, s)

\* C19: combine_dna(a, b, s) = combine_dna(b, a, ~s) and
\* combine_dna(a, a, s) = a for bytes a, b, s; and in every state
\* breed(caller, idA, idB) and breed(caller, idB, idA) return the same
\* result, the one the checks of breed give for the two ids in either order.
C19_CombineSymmetric ==
    [](/\ CombineLawsOnSamples
       /\ \A who \in Accounts : \A idA, idB \in U32 :
             idA < idB =>
                 /\ BreedResult(who, idA, idB) = BreedResult(who, idB, idA)
                 /\ ~ENABLED (/\ breed(SignedBy(who), idA, idB)
                              /\ last'.result # BreedResult(who, idB, idA))
                 /\ ~ENABLED (/\ breed(SignedBy(who), idB, idA)
                              /\ last'.result # BreedResult(who, idA, idB)))

C19_Witness ==
    /\ last.op = "breed"
    /\ last.result = "Ok"
    /\ \E who \in Accounts : \E idA, idB \in U32 : \E sel \in Entropy :
          /\ idA < idB
          /\ Owns(who, idA) /\ Owns(who, idB) /\ Owns(who, last.kitty_id)
          /\ Parity(who, idA) # Parity(who, idB)
          /\ Kitties[<<who, last.kitty_id>>] \notin
                 {Kitties[<<who, idA>>], Kitties[<<who, idB>>]}
          /\ Kitties[<<who, last.kitty_id>>] =
                 [i \in 1 .. DnaLen |->
                     combine_dna(Kitties[<<who, idB>>][i], Kitties[<<who, idA>>][i],
                                 BitNot(sel[i]))]

====
